---- MODULE Spec2Model ----
(***************************************************************************)
(* Stock ledger of the inventory service: the two front ends               *)
(* (inventory-rest-api.py, grpc_server.py) running their stock-changing     *)
(* handlers concurrently against the QuestDB tables `stock` and            *)
(* `stock_transactions`.  Every call of execute_query is one atomic step   *)
(* of the store; the code between two calls is local to the handler.       *)
(***************************************************************************)
EXTENDS Integers, Sequences, FiniteSets, TLC

\* ---------------------------------------------------------------- bounds
NumProcs == 2
MaxOps == 2
MaxNeg == 1
MaxQty == 1
MaxFailures == 1
MaxLimit == 2
\* request.args.get('limit', 50)
DefaultLimit == 50
\* request.args.get('limit', 100)
DefaultLimitAll == 100

Procs == 1..NumProcs
Products == {"P1", "P2"}
StockTypes == {"IN", "OUT", "ADJUSTMENT"}
\* a string that is none of IN, OUT, ADJUSTMENT
OtherType == "FOO"
\* magnitudes and negative quantities; the quantity 0 is what a body
\* without a quantity decodes to
QtyInputs == ((0 - MaxNeg)..MaxQty) \ {0}

VARIABLES
    stock,               \* table stock: rows in insertion (= last_updated) order
    stock_transactions,  \* table stock_transactions, in insertion order
    failures,            \* number of store queries that failed so far
    pc,                  \* position of each handler thread
    handler,             \* which handler the thread runs
    request,             \* decoded request payload
    current_quantity,    \* local of the handler
    new_quantity,        \* local of the handler
    txn_id,              \* local of the handler (0: not generated)
    stock_result,        \* local: result of the stock insert
    response,            \* what the handler returned
    uuids,               \* number of transaction ids drawn so far
    ops,                 \* number of requests received so far
    op,                  \* history: the request number of the running handler
    sequential,          \* history: no other handler ran during this one
    stock_at_call,       \* history: latest snapshot quantity at the call
    queries,             \* history: execute_query calls of the running handler
    products,            \* table products: the ids of its rows
    args,                \* query-string arguments of a reading request
    limit,               \* local of get_transactions: the LIMIT sent to the store
    result,              \* local of a reading handler: outcome of its query
    dataset              \* local of a reading handler: the rows the store returned

vars == <<stock, stock_transactions, failures, pc, handler, request,
          current_quantity, new_quantity, txn_id, stock_result, response,
          uuids, ops, op, sequential, stock_at_call, queries, products,
          args, limit, result, dataset>>

\* what the stock-changing handlers never touch
readvars == <<products, args, limit, result, dataset>>

\* ------------------------------------------------------------ the store
\* SELECT quantity FROM stock WHERE product_id = .. ORDER BY last_updated DESC LIMIT 1
RECURSIVE LatestFrom(_, _, _)
LatestFrom(rows, product_id, i) ==
    IF i = 0 THEN <<>>
    ELSE IF rows[i].product_id = product_id THEN <<rows[i]>>
    ELSE LatestFrom(rows, product_id, i - 1)

LatestSnapshot(product_id) == LatestFrom(stock, product_id, Len(stock))

\* execute_query: either the JSON answer of the store or {"error": ...}
\* (status other than 200, or an exception of requests.get)
QueryOutcomes == {"ok", "error"}

\* p is the calling handler and n the number of queries it has issued
execute_query(p, n, outcome) ==
    /\ outcome = "error" => failures < MaxFailures
    /\ failures' = IF outcome = "error" THEN failures + 1 ELSE failures
    /\ queries' = [queries EXCEPT ![p] = n + 1]

\* current_quantity = 0; if current_result.get('count', 0) > 0: dataset[0][0]
CurrentQuantity(outcome, product_id) ==
    IF outcome = "ok" /\ Len(LatestSnapshot(product_id)) > 0
    THEN LatestSnapshot(product_id)[1].quantity
    ELSE 0

\* the new quantity written as the snapshot of every product (no WHERE)
InsertStock_EveryProduct(outcome, product_id, quantity, o) ==
    IF outcome # "ok" THEN stock
    ELSE LET other == CHOOSE j \in Products : j # product_id
         IN  Append(Append(stock, [product_id |-> product_id, quantity |-> quantity, op |-> o]),
                    [product_id |-> other, quantity |-> quantity, op |-> o])

\* the snapshot of a product overwritten in place (an UPDATE) when it has one
InsertStock_InPlace(outcome, product_id, quantity, o) ==
    IF outcome # "ok" THEN stock
    ELSE IF \E k \in 1..Len(stock) : stock[k].product_id = product_id
    THEN [k \in 1..Len(stock) |->
            IF stock[k].product_id = product_id
            THEN [product_id |-> product_id, quantity |-> quantity, op |-> o]
            ELSE stock[k]]
    ELSE Append(stock, [product_id |-> product_id, quantity |-> quantity, op |-> o])

\* INSERT INTO stock VALUES (product_id, new_quantity, location, now())
InsertStock(outcome, product_id, quantity, o) ==
    IF outcome = "ok"
    THEN Append(stock, [product_id |-> product_id, quantity |-> quantity, op |-> o])
    ELSE stock

\* INSERT INTO stock_transactions VALUES (txn_id, product_id, type, quantity, before, after, reason, now())
InsertTransaction(outcome, id, product_id, type, quantity, before, after, o) ==
    IF outcome = "ok"
    THEN Append(stock_transactions,
                [id |-> id, product_id |-> product_id, type |-> type,
                 quantity |-> quantity, quantity_before |-> before,
                 quantity_after |-> after, op |-> o])
    ELSE stock_transactions

\* --------------------------------------------------------------- requests
\* A field the caller left out is has_* = FALSE with the neutral value.
Request(product_id, has_type, type, has_quantity, quantity) ==
    [product_id |-> product_id, has_type |-> has_type, type |-> type,
     has_quantity |-> has_quantity, quantity |-> quantity]

\* JSON bodies of POST /api/stock/update: every type with every quantity,
\* one body with another type, and the body that leaves both fields out
RestRequests ==
    {Request(i, TRUE, t, TRUE, q) : i \in Products, t \in StockTypes, q \in QtyInputs}
    \cup {Request(i, TRUE, OtherType, TRUE, MaxQty) : i \in Products}
    \cup {Request(i, FALSE, "", FALSE, 0) : i \in Products}

\* UpdateStockRequest(product_id, quantity): no type field.  A protobuf
\* message carries no absent scalar: an unset quantity is the quantity 0.
UpdateStockRequests ==
    {Request(i, FALSE, "", TRUE, q) : i \in Products, q \in QtyInputs}

\* TransactionRequest(product_id, quantity, transaction_type); an unset
\* transaction_type is the string "".  Every type that is neither IN nor OUT
\* takes the same branch; ADJUSTMENT stands for them.
CreateTransactionRequests ==
    {Request(i, TRUE, t, TRUE, q) : i \in Products, t \in {"IN", "OUT"}, q \in QtyInputs}
    \cup {Request(i, TRUE, "ADJUSTMENT", TRUE, MaxQty) : i \in Products}

\* GET requests name a product in the path (gRPC: GetStockRequest.product_id)
ReadRequests == {Request(i, FALSE, "", FALSE, 0) : i \in Products}

\* query string of GET /api/transactions/<product_id>: with or without limit
NoArgs == [has_limit |-> FALSE, limit |-> 0]
LimitArgs == {NoArgs} \cup {[has_limit |-> TRUE, limit |-> n] : n \in 0..MaxLimit}

NoRequest == [product_id |-> "P1", has_type |-> FALSE, type |-> "",
              has_quantity |-> FALSE, quantity |-> 0]

\* REST: data.get('type', 'ADJUSTMENT'); gRPC: the proto3 default ""
TransactionType(h, r) ==
    IF h = "update_stock" /\ ~r.has_type THEN "ADJUSTMENT" ELSE r.type

\* REST: int(data.get('quantity', 0)); gRPC: the proto3 default 0
QuantityChange(h, r) == IF r.has_quantity THEN r.quantity ELSE 0

\* -------------------------------------------------------------- responses
NoResponse == [status |-> 0, code |-> "", transaction_id |-> 0,
               previous_stock |-> 0, new_stock |-> 0]

\* jsonify(...), status
RestResponse(status, id, previous, new) ==
    [status |-> status, code |-> "", transaction_id |-> id,
     previous_stock |-> previous, new_stock |-> new]

\* context.set_code(...); a context whose code was never set is OK
GrpcResponse(code, id, current) ==
    [status |-> 0, code |-> code, transaction_id |-> id,
     previous_stock |-> 0, new_stock |-> current]

Init ==
    /\ stock = <<>>
    /\ stock_transactions = <<>>
    /\ failures = 0
    /\ pc = [p \in Procs |-> "idle"]
    /\ handler = [p \in Procs |-> "none"]
    /\ request = [p \in Procs |-> NoRequest]
    /\ current_quantity = [p \in Procs |-> 0]
    /\ new_quantity = [p \in Procs |-> 0]
    /\ txn_id = [p \in Procs |-> 0]
    /\ stock_result = [p \in Procs |-> "none"]
    /\ response = [p \in Procs |-> NoResponse]
    /\ uuids = 0
    /\ ops = 0
    /\ op = [p \in Procs |-> 0]
    /\ sequential = [p \in Procs |-> FALSE]
    /\ stock_at_call = [p \in Procs |-> 0]
    /\ queries = [p \in Procs |-> 0]
    /\ products = {}
    /\ args = [p \in Procs |-> NoArgs]
    /\ limit = [p \in Procs |-> 0]
    /\ result = [p \in Procs |-> "none"]
    /\ dataset = [p \in Procs |-> <<>>]

\* SELECT * FROM stock_transactions WHERE product_id = .. ORDER BY timestamp DESC
RECURSIVE TransactionsDesc(_, _, _)
TransactionsDesc(rows, product_id, i) ==
    IF i = 0 THEN <<>>
    ELSE IF rows[i].product_id = product_id
         THEN <<rows[i]>> \o TransactionsDesc(rows, product_id, i - 1)
         ELSE TransactionsDesc(rows, product_id, i - 1)

\* the number of rows LIMIT n lets through out of len; what the store does
\* with a LIMIT below 1 is not fixed by the code
LimitedLengths(n, len) ==
    IF n >= 1 THEN {IF n < len THEN n ELSE len} ELSE 0..len

\* the success test looking at the transaction insert only
BothInserted_TxnOnly(stock_res, txn_res) == txn_res = "ok"

\* 'error' not in stock_result and 'error' not in txn_result
BothInserted(stock_res, txn_res) == stock_res = "ok" /\ txn_res = "ok"

\* ------------------------------------------------------- handler threads
Running(p) == pc[p] \notin {"idle", "done"}

\* A request is dispatched to a free worker thread (a Flask request thread,
\* a worker of the gRPC ThreadPoolExecutor); nothing serialises two requests.
\* The handler's code up to and including its first execute_query is one step.
Free(p) ==
    /\ ops < MaxOps
    /\ ~Running(p)
    /\ \A q \in Procs : q < p => Running(q)

Dispatch(p, h, r) ==
    /\ ops' = ops + 1
    /\ op' = [op EXCEPT ![p] = ops + 1]
    /\ handler' = [handler EXCEPT ![p] = h]
    /\ request' = [request EXCEPT ![p] = r]
    /\ stock_result' = [stock_result EXCEPT ![p] = "none"]
    /\ sequential' = [q \in Procs |->
                        IF q = p THEN \A o \in Procs \ {p} : ~Running(o)
                        ELSE IF Running(q) THEN FALSE ELSE sequential[q]]
    /\ stock_at_call' = [stock_at_call EXCEPT ![p] = CurrentQuantity("ok", r.product_id)]
    /\ UNCHANGED <<stock, stock_transactions>>

\* uuid.uuid4().hex[:8]: the first 8 hex digits of a random uuid, a value of
\* 32 random bits.  Nothing makes a draw differ from an earlier one: it is
\* any value drawn before or a new one (values numbered as they first appear).
Hex8 == 1..(uuids + 1)

\* new_quantity of update_stock, lines 148-153
RestNewQuantity(type, current, change) ==
    IF type = "IN" THEN current + change
    ELSE IF type = "OUT" THEN current - change
    ELSE change

\* REST update_stock, lines 131-160: decode, read the latest snapshot,
\* compute, refuse a negative result, draw the transaction id
RestRead(p) ==
    /\ Free(p)
    /\ \E r \in RestRequests, outcome \in QueryOutcomes :
        LET current == CurrentQuantity(outcome, r.product_id)
            new == RestNewQuantity(TransactionType("update_stock", r), current,
                                   QuantityChange("update_stock", r))
        IN  /\ execute_query(p, 0, outcome)
            /\ Dispatch(p, "update_stock", r)
            /\ current_quantity' = [current_quantity EXCEPT ![p] = current]
            /\ new_quantity' = [new_quantity EXCEPT ![p] = new]
            /\ IF new < 0
               THEN /\ response' = [response EXCEPT ![p] = RestResponse(400, 0, 0, 0)]
                    /\ pc' = [pc EXCEPT ![p] = "done"]
                    /\ txn_id' = [txn_id EXCEPT ![p] = 0]
                    /\ UNCHANGED uuids
               ELSE /\ \E id \in Hex8 : txn_id' = [txn_id EXCEPT ![p] = id]
                    /\ uuids' = uuids + 1
                    /\ pc' = [pc EXCEPT ![p] = "insert_stock"]
                    /\ response' = [response EXCEPT ![p] = NoResponse]
            /\ UNCHANGED readvars

\* the stock insert waiting for one lock shared by all products
RestInsertStock_GlobalLock(p) ==
    /\ \A q \in Procs \ {p} : ~Running(q)
    /\ pc[p] = "insert_stock" /\ handler[p] = "update_stock"
    /\ \E outcome \in QueryOutcomes :
        /\ execute_query(p, queries[p], outcome)
        /\ stock' = InsertStock(outcome, request[p].product_id, new_quantity[p], op[p])
        /\ stock_result' = [stock_result EXCEPT ![p] = outcome]
    /\ pc' = [pc EXCEPT ![p] = "insert_txn"]
    /\ UNCHANGED <<stock_transactions, handler, request, current_quantity,
                   new_quantity, txn_id, response, uuids, ops, op, sequential,
                   stock_at_call, readvars>>

\* REST update_stock, line 180
RestInsertStock(p) ==
    /\ pc[p] = "insert_stock" /\ handler[p] = "update_stock"
    /\ \E outcome \in QueryOutcomes :
        /\ execute_query(p, queries[p], outcome)
        /\ stock' = InsertStock(outcome, request[p].product_id, new_quantity[p], op[p])
        /\ stock_result' = [stock_result EXCEPT ![p] = outcome]
    /\ pc' = [pc EXCEPT ![p] = "insert_txn"]
    /\ UNCHANGED <<stock_transactions, handler, request, current_quantity,
                   new_quantity, txn_id, response, uuids, ops, op, sequential,
                   stock_at_call, readvars>>

\* the transaction insert held back while another stock change is in progress
RestInsertTransaction_Waits(p) ==
    /\ \A q \in Procs \ {p} : ~Running(q)
    /\ pc[p] = "insert_txn" /\ handler[p] = "update_stock"
    /\ \E outcome \in QueryOutcomes :
        /\ execute_query(p, queries[p], outcome)
        /\ stock_transactions' =
              InsertTransaction(outcome, txn_id[p], request[p].product_id,
                                TransactionType("update_stock", request[p]),
                                QuantityChange("update_stock", request[p]),
                                current_quantity[p], new_quantity[p], op[p])
        /\ response' = [response EXCEPT ![p] =
              IF BothInserted(stock_result[p], outcome)
              THEN RestResponse(200, txn_id[p], current_quantity[p], new_quantity[p])
              ELSE RestResponse(500, 0, 0, 0)]
    /\ pc' = [pc EXCEPT ![p] = "done"]
    /\ UNCHANGED <<stock, handler, request, current_quantity, new_quantity,
                   txn_id, stock_result, uuids, ops, op, sequential, stock_at_call, readvars>>

\* REST update_stock, lines 181-192
RestInsertTransaction(p) ==
    /\ pc[p] = "insert_txn" /\ handler[p] = "update_stock"
    /\ \E outcome \in QueryOutcomes :
        /\ execute_query(p, queries[p], outcome)
        /\ stock_transactions' =
              InsertTransaction(outcome, txn_id[p], request[p].product_id,
                                TransactionType("update_stock", request[p]),
                                QuantityChange("update_stock", request[p]),
                                current_quantity[p], new_quantity[p], op[p])
        /\ response' = [response EXCEPT ![p] =
              IF BothInserted(stock_result[p], outcome)
              THEN RestResponse(200, txn_id[p], current_quantity[p], new_quantity[p])
              ELSE RestResponse(500, 0, 0, 0)]
    /\ pc' = [pc EXCEPT ![p] = "done"]
    /\ UNCHANGED <<stock, handler, request, current_quantity, new_quantity,
                   txn_id, stock_result, uuids, ops, op, sequential, stock_at_call, readvars>>

\* gRPC UpdateStock, lines 134-155
UpdateStockRead(p) ==
    /\ Free(p)
    /\ \E r \in UpdateStockRequests, outcome \in QueryOutcomes :
        LET current == CurrentQuantity(outcome, r.product_id)
            new == QuantityChange("UpdateStock", r)
        IN  /\ execute_query(p, 0, outcome)
            /\ Dispatch(p, "UpdateStock", r)
            /\ current_quantity' = [current_quantity EXCEPT ![p] = current]
            /\ new_quantity' = [new_quantity EXCEPT ![p] = new]
            /\ txn_id' = [txn_id EXCEPT ![p] = 0]
            /\ UNCHANGED uuids
            /\ IF new < 0
               THEN /\ response' = [response EXCEPT ![p] =
                                      GrpcResponse("INVALID_ARGUMENT", 0, current)]
                    /\ pc' = [pc EXCEPT ![p] = "done"]
               ELSE /\ response' = [response EXCEPT ![p] = NoResponse]
                    /\ pc' = [pc EXCEPT ![p] = "insert_stock"]
            /\ UNCHANGED readvars

\* gRPC UpdateStock, lines 158-179: the snapshot is the only row written
UpdateStockInsert(p) ==
    /\ pc[p] = "insert_stock" /\ handler[p] = "UpdateStock"
    /\ \E outcome \in QueryOutcomes :
        /\ execute_query(p, queries[p], outcome)
        /\ stock' = InsertStock(outcome, request[p].product_id, new_quantity[p], op[p])
        /\ stock_result' = [stock_result EXCEPT ![p] = outcome]
        /\ response' = [response EXCEPT ![p] =
              IF outcome = "ok"
              THEN GrpcResponse("OK", 0, new_quantity[p])
              ELSE GrpcResponse("INTERNAL", 0, current_quantity[p])]
    /\ pc' = [pc EXCEPT ![p] = "done"]
    /\ UNCHANGED <<stock_transactions, handler, request, current_quantity,
                   new_quantity, txn_id, uuids, ops, op, sequential, stock_at_call, readvars>>

\* gRPC CreateTransaction, lines 193-226: the id is drawn before the read
CreateTransactionRead(p) ==
    /\ Free(p)
    /\ \E r \in CreateTransactionRequests, outcome \in QueryOutcomes :
        LET type == TransactionType("CreateTransaction", r)
            quantity == QuantityChange("CreateTransaction", r)
            current == CurrentQuantity(outcome, r.product_id)
        IN  /\ execute_query(p, 0, outcome)
            /\ Dispatch(p, "CreateTransaction", r)
            /\ \E id \in Hex8 : txn_id' = [txn_id EXCEPT ![p] = id]
            /\ uuids' = uuids + 1
            /\ current_quantity' = [current_quantity EXCEPT ![p] = current]
            /\ IF type = "IN"
               THEN /\ new_quantity' = [new_quantity EXCEPT ![p] = current + quantity]
                    /\ pc' = [pc EXCEPT ![p] = "insert_stock"]
                    /\ response' = [response EXCEPT ![p] = NoResponse]
               ELSE IF type = "OUT"
               THEN /\ new_quantity' = [new_quantity EXCEPT ![p] = current - quantity]
                    /\ IF current - quantity < 0
                       THEN /\ response' = [response EXCEPT ![p] =
                                              GrpcResponse("INVALID_ARGUMENT", 0, 0)]
                            /\ pc' = [pc EXCEPT ![p] = "done"]
                       ELSE /\ pc' = [pc EXCEPT ![p] = "insert_stock"]
                            /\ response' = [response EXCEPT ![p] = NoResponse]
               ELSE /\ response' = [response EXCEPT ![p] =
                                      GrpcResponse("INVALID_ARGUMENT", 0, 0)]
                    /\ pc' = [pc EXCEPT ![p] = "done"]
                    /\ new_quantity' = [new_quantity EXCEPT ![p] = 0]
            /\ UNCHANGED readvars

\* gRPC CreateTransaction, line 245
CreateTransactionInsertStock(p) ==
    /\ pc[p] = "insert_stock" /\ handler[p] = "CreateTransaction"
    /\ \E outcome \in QueryOutcomes :
        /\ execute_query(p, queries[p], outcome)
        /\ stock' = InsertStock(outcome, request[p].product_id, new_quantity[p], op[p])
        /\ stock_result' = [stock_result EXCEPT ![p] = outcome]
    /\ pc' = [pc EXCEPT ![p] = "insert_txn"]
    /\ UNCHANGED <<stock_transactions, handler, request, current_quantity,
                   new_quantity, txn_id, response, uuids, ops, op, sequential,
                   stock_at_call, readvars>>

\* gRPC CreateTransaction, lines 246-259
CreateTransactionInsertTransaction(p) ==
    /\ pc[p] = "insert_txn" /\ handler[p] = "CreateTransaction"
    /\ \E outcome \in QueryOutcomes :
        /\ execute_query(p, queries[p], outcome)
        /\ stock_transactions' =
              InsertTransaction(outcome, txn_id[p], request[p].product_id,
                                TransactionType("CreateTransaction", request[p]),
                                QuantityChange("CreateTransaction", request[p]),
                                current_quantity[p], new_quantity[p], op[p])
        /\ response' = [response EXCEPT ![p] =
              IF BothInserted(stock_result[p], outcome)
              THEN GrpcResponse("OK", txn_id[p], 0)
              ELSE GrpcResponse("INTERNAL", 0, 0)]
    /\ pc' = [pc EXCEPT ![p] = "done"]
    /\ UNCHANGED <<stock, handler, request, current_quantity, new_quantity,
                   txn_id, stock_result, uuids, ops, op, sequential, stock_at_call, readvars>>

\* REST create_product (lines 38-57) and gRPC CreateProduct (lines 37-65):
\* one INSERT INTO products; the id is the caller's or a fresh one
CreateProduct(i) ==
    /\ i \notin products
    /\ \E outcome \in QueryOutcomes :
        /\ outcome = "error" => failures < MaxFailures
        /\ failures' = IF outcome = "error" THEN failures + 1 ELSE failures
        /\ products' = IF outcome = "ok" THEN products \cup {i} ELSE products
    /\ UNCHANGED <<stock, stock_transactions, pc, handler, request,
                   current_quantity, new_quantity, txn_id, stock_result,
                   response, uuids, ops, op, sequential, stock_at_call,
                   queries, args, limit, result, dataset>>

\* a reading handler that records a snapshot 0 for a product without one
ReadDispatch_Records(p, h, r) ==
    /\ ops' = ops + 1
    /\ op' = [op EXCEPT ![p] = ops + 1]
    /\ handler' = [handler EXCEPT ![p] = h]
    /\ request' = [request EXCEPT ![p] = r]
    /\ stock_result' = [stock_result EXCEPT ![p] = "none"]
    /\ sequential' = [q \in Procs |->
                        IF q = p THEN \A o \in Procs \ {p} : ~Running(o)
                        ELSE IF Running(q) THEN FALSE ELSE sequential[q]]
    /\ stock_at_call' = [stock_at_call EXCEPT ![p] = CurrentQuantity("ok", r.product_id)]
    /\ stock' = IF Len(LatestSnapshot(r.product_id)) = 0
                THEN Append(stock, [product_id |-> r.product_id, quantity |-> 0,
                                    op |-> ops + 1])
                ELSE stock
    /\ UNCHANGED stock_transactions
    /\ current_quantity' = [current_quantity EXCEPT ![p] = 0]
    /\ new_quantity' = [new_quantity EXCEPT ![p] = 0]
    /\ txn_id' = [txn_id EXCEPT ![p] = 0]
    /\ pc' = [pc EXCEPT ![p] = "done"]
    /\ UNCHANGED <<uuids, products>>

\* what a reading handler leaves of the locals of a stock change
ReadDispatch(p, h, r) ==
    /\ Dispatch(p, h, r)
    /\ current_quantity' = [current_quantity EXCEPT ![p] = 0]
    /\ new_quantity' = [new_quantity EXCEPT ![p] = 0]
    /\ txn_id' = [txn_id EXCEPT ![p] = 0]
    /\ pc' = [pc EXCEPT ![p] = "done"]
    /\ UNCHANGED <<uuids, products>>

\* jsonify of the reading REST handlers / StockResponse of GetStock
StockResponse(status, code, current_stock, message) ==
    [status |-> status, code |-> code, current_stock |-> current_stock,
     message |-> message]

\* REST get_stock, lines 96-106
RestGetStock(p) ==
    /\ Free(p)
    /\ \E r \in ReadRequests, outcome \in QueryOutcomes :
        LET latest == LatestSnapshot(r.product_id)
            rows == IF outcome = "ok" THEN latest ELSE <<>>
        IN  /\ execute_query(p, 0, outcome)
            /\ ReadDispatch(p, "get_stock", r)
            /\ result' = [result EXCEPT ![p] = outcome]
            /\ dataset' = [dataset EXCEPT ![p] = rows]
            /\ response' = [response EXCEPT ![p] =
                  IF outcome = "ok" /\ Len(rows) > 0
                  THEN StockResponse(200, "", rows[1].quantity, "success")
                  ELSE StockResponse(404, "", 0, "Stock not found")]
            /\ UNCHANGED <<args, limit>>

\* gRPC GetStock, lines 104-120
GrpcGetStock(p) ==
    /\ Free(p)
    /\ \E r \in ReadRequests, outcome \in QueryOutcomes :
        LET latest == LatestSnapshot(r.product_id)
            rows == IF outcome = "ok" THEN latest ELSE <<>>
        IN  /\ execute_query(p, 0, outcome)
            /\ ReadDispatch(p, "GetStock", r)
            /\ result' = [result EXCEPT ![p] = outcome]
            /\ dataset' = [dataset EXCEPT ![p] = rows]
            /\ response' = [response EXCEPT ![p] =
                  IF outcome = "ok" /\ Len(rows) > 0
                  THEN StockResponse(0, "OK", rows[1].quantity, "Stock retrieved")
                  ELSE StockResponse(0, "OK", 0, "No stock record found")]
            /\ UNCHANGED <<args, limit>>

\* REST get_transactions, lines 204-221
GetTransactions(p) ==
    /\ Free(p)
    /\ \E r \in ReadRequests, a \in LimitArgs, outcome \in QueryOutcomes :
        LET lim == IF a.has_limit THEN a.limit ELSE DefaultLimit
            all == TransactionsDesc(stock_transactions, r.product_id,
                                    Len(stock_transactions))
        IN  /\ execute_query(p, 0, outcome)
            /\ ReadDispatch(p, "get_transactions", r)
            /\ args' = [args EXCEPT ![p] = a]
            /\ limit' = [limit EXCEPT ![p] = lim]
            /\ result' = [result EXCEPT ![p] = outcome]
            /\ \E n \in LimitedLengths(lim, Len(all)) :
                  dataset' = [dataset EXCEPT ![p] =
                                IF outcome = "ok" THEN SubSeq(all, 1, n) ELSE <<>>]
            /\ response' = [response EXCEPT ![p] =
                  StockResponse(IF outcome = "ok" THEN 200 ELSE 500, "", 0,
                                IF outcome = "ok" THEN "success" ELSE "error")]

Next ==
    \E p \in Procs :
        \/ RestRead(p)
        \/ RestInsertStock(p)
        \/ RestInsertTransaction(p)
        \/ UpdateStockRead(p)
        \/ UpdateStockInsert(p)
        \/ CreateTransactionRead(p)
        \/ CreateTransactionInsertStock(p)
        \/ CreateTransactionInsertTransaction(p)

Spec == Init /\ [][Next]_vars

\* the stock-changing handlers next to the product registry
NextRegistry ==
    \/ Next
    \/ \E i \in Products : CreateProduct(i)

SpecRegistry == Init /\ [][NextRegistry]_vars

\* the stock-changing handlers next to the reading handlers
NextReads ==
    \/ Next
    \/ \E p \in Procs :
        \/ RestGetStock(p)
        \/ GrpcGetStock(p)
        \/ GetTransactions(p)

SpecReads == Init /\ [][NextReads]_vars

TypeOK ==
    /\ \A p \in Procs : pc[p] \in {"idle", "insert_stock", "insert_txn", "done"}
    /\ ops \in 0..MaxOps

\* ----------------------------------------------------- reading the state
\* the handler returned a success response (HTTP 200, gRPC status OK)
Succeeded(p) ==
    /\ pc[p] = "done"
    /\ IF handler[p] = "update_stock" THEN response[p].status = 200
       ELSE response[p].code = "OK"

\* the handler returned an error response
Rejected(p) == pc[p] = "done" /\ ~Succeeded(p)

\* The error kinds of the taxonomy a returned status stands for.  HTTP 400 is
\* the status of InvalidArgument and of FailedPrecondition alike; a gRPC
\* status code names its kind.
ErrorKinds(p) ==
    IF handler[p] = "update_stock"
    THEN IF response[p].status = 400 THEN {"InvalidArgument", "FailedPrecondition"}
         ELSE IF response[p].status = 500 THEN {"Internal"}
         ELSE {}
    ELSE IF response[p].code = "INVALID_ARGUMENT" THEN {"InvalidArgument"}
         ELSE IF response[p].code = "INTERNAL" THEN {"Internal"}
         ELSE {}

SnapshotsOf(o) == {i \in 1..Len(stock) : stock[i].op = o}
TransactionsOf(o) == {i \in 1..Len(stock_transactions) : stock_transactions[i].op = o}
WroteNothing(p) == SnapshotsOf(op[p]) = {} /\ TransactionsOf(op[p]) = {}

\* the stock level the ledger rule assigns to a change
NewStock(type, previous, quantity) ==
    IF type = "IN" THEN previous + quantity
    ELSE IF type = "OUT" THEN previous - quantity
    ELSE quantity

\* a three-type stock change (REST update_stock or gRPC CreateTransaction)
\* whose body names its type and its quantity
TypedChange(p) ==
    /\ handler[p] \in {"update_stock", "CreateTransaction"}
    /\ request[p].has_type /\ request[p].has_quantity

\* ------------------------------------------------------------- the claims

\* C1: in every reachable state every product's latest snapshot has
\* quantity >= 0 and every recorded transaction has quantity_after >= 0.
C1_StockNeverNegative ==
    /\ \A i \in Products : CurrentQuantity("ok", i) >= 0
    /\ \A k \in 1..Len(stock_transactions) : stock_transactions[k].quantity_after >= 0

\* C2: no lost updates: when every one of the NumProcs concurrent handlers
\* ran IN 1 on the same product, which had no snapshot, all returned success
\* and no store query failed, the product's latest snapshot quantity is
\* NumProcs.
C2_NoLostUpdates ==
    \A i \in Products :
        ( /\ ops = NumProcs
          /\ failures = 0
          /\ \A p \in Procs :
                /\ Succeeded(p) /\ TypedChange(p)
                /\ request[p].product_id = i
                /\ request[p].type = "IN" /\ request[p].quantity = 1 )
        => CurrentQuantity("ok", i) = NumProcs

\* C3: atomicity on error: a stock-changing operation that returned an error
\* has left neither a snapshot nor a transaction behind.
C3_ErrorWritesNothing ==
    \A p \in Procs : Rejected(p) => WroteNothing(p)

\* C4: every recorded transaction has type IN, OUT or ADJUSTMENT, and its
\* quantity_after is quantity_before + quantity, quantity_before - quantity
\* or quantity respectively.
C4_TransactionArithmetic ==
    \A k \in 1..Len(stock_transactions) :
        LET t == stock_transactions[k]
        IN  /\ t.type \in StockTypes
            /\ t.quantity_after = NewStock(t.type, t.quantity_before, t.quantity)

\* C5: outside an operation's own commit step every transaction is paired
\* with a snapshot of the same product written by the same operation whose
\* quantity is the transaction's quantity_after, and every snapshot is paired
\* with such a transaction.
C5_SnapshotTransactionPaired ==
    LET committing == {op[p] : p \in {q \in Procs : Running(q)}}
    IN  /\ \A k \in 1..Len(stock_transactions) :
            LET t == stock_transactions[k]
            IN  t.op \notin committing =>
                    \E i \in SnapshotsOf(t.op) :
                        /\ stock[i].product_id = t.product_id
                        /\ stock[i].quantity = t.quantity_after
        /\ \A i \in 1..Len(stock) :
            stock[i].op \notin committing =>
                \E k \in TransactionsOf(stock[i].op) :
                    /\ stock_transactions[k].product_id = stock[i].product_id
                    /\ stock_transactions[k].quantity_after = stock[i].quantity

\* C6: every stock-changing operation that returned success has added exactly
\* one snapshot and exactly one transaction, both for its product.
C6_SuccessWritesOnePair ==
    \A p \in Procs :
        Succeeded(p) =>
            /\ Cardinality(SnapshotsOf(op[p])) = 1
            /\ Cardinality(TransactionsOf(op[p])) = 1
            /\ \A i \in SnapshotsOf(op[p]) : stock[i].product_id = request[p].product_id
            /\ \A k \in TransactionsOf(op[p]) :
                  stock_transactions[k].product_id = request[p].product_id

\* C7: in a sequential execution a successful REST stock change of type IN,
\* OUT or ADJUSTMENT with a quantity >= 0 reports previous_stock = the latest snapshot quantity at
\* the call (0 without a snapshot) and new_stock by the ledger rule; the
\* product's stock is then new_stock and the transaction carries that
\* previous stock as quantity_before.
C7_SequentialResult ==
    \A p \in Procs :
        ( /\ Succeeded(p) /\ sequential[p]
          /\ handler[p] = "update_stock" /\ TypedChange(p)
          /\ request[p].type \in StockTypes /\ request[p].quantity >= 0 )
        => LET expected == NewStock(request[p].type, stock_at_call[p], request[p].quantity)
           IN  /\ response[p].previous_stock = stock_at_call[p]
               /\ response[p].new_stock = expected
               /\ CurrentQuantity("ok", request[p].product_id) = expected
               /\ \A k \in TransactionsOf(op[p]) :
                     stock_transactions[k].quantity_before = stock_at_call[p]

\* C8: a stock change of type IN, OUT or ADJUSTMENT whose new stock would be
\* negative is rejected with FailedPrecondition and writes nothing, in both
\* front ends.
C8_NegativeStockRejected ==
    \A p \in Procs :
        ( /\ pc[p] = "done" /\ TypedChange(p)
          /\ request[p].type \in StockTypes
          /\ NewStock(request[p].type, current_quantity[p], request[p].quantity) < 0 )
        => /\ Rejected(p)
           /\ "FailedPrecondition" \in ErrorKinds(p)
           /\ WroteNothing(p)

\* C9: a stock change whose type is none of IN, OUT, ADJUSTMENT is rejected
\* with InvalidArgument and writes nothing, and a change of one of the three
\* types is not refused for its type, in both front ends.
C9_TypeValidated ==
    \A p \in Procs :
        (pc[p] = "done" /\ TypedChange(p)) =>
            IF request[p].type \in StockTypes
            THEN ( /\ request[p].quantity >= 0
                   /\ NewStock(request[p].type, current_quantity[p], request[p].quantity) >= 0
                   /\ failures = 0 )
                 => Succeeded(p)
            ELSE /\ Rejected(p)
                 /\ "InvalidArgument" \in ErrorKinds(p)
                 /\ WroteNothing(p)

\* C10: a stock change with a negative quantity is rejected with
\* InvalidArgument, for every type and every current stock, and writes
\* neither a snapshot nor a transaction.
C10_NegativeQuantityRejected ==
    \A p \in Procs :
        (pc[p] = "done" /\ request[p].has_quantity /\ request[p].quantity < 0) =>
            /\ Rejected(p)
            /\ "InvalidArgument" \in ErrorKinds(p)
            /\ WroteNothing(p)

\* C11: a stock change for a product that was never created fails and
\* writes nothing: every snapshot and every transaction refers to a product
\* of the registry.
C11_UnknownProductRejected ==
    /\ \A k \in 1..Len(stock) : stock[k].product_id \in products
    /\ \A k \in 1..Len(stock_transactions) : stock_transactions[k].product_id \in products
    /\ \A p \in Procs :
        (pc[p] = "done" /\ request[p].product_id \notin products) =>
            Rejected(p)

\* C12: the same request (product, type IN, OUT or ADJUSTMENT, quantity) sent
\* to REST update_stock and to gRPC CreateTransaction from the same ledger
\* state, every store query answered, is accepted by both or refused by both
\* and makes both write the same snapshot and the same transaction.
C12_FrontEndsAgree ==
    \A p, q \in Procs :
        ( /\ pc[p] = "done" /\ handler[p] = "update_stock"
          /\ pc[q] = "done" /\ handler[q] = "CreateTransaction"
          /\ TypedChange(p) /\ request[p] = request[q]
          /\ request[p].type \in StockTypes
          /\ stock_at_call[p] = stock_at_call[q]
          /\ failures = 0 )
        => /\ Succeeded(p) <=> Succeeded(q)
           /\ WroteNothing(p) <=> WroteNothing(q)
           /\ Succeeded(p) =>
                 /\ current_quantity[p] = current_quantity[q]
                 /\ new_quantity[p] = new_quantity[q]

\* the stock of a product as of just before row k of the stock table
StockBeforeRow(product_id, k) ==
    LET s == LatestFrom(stock, product_id, k - 1)
    IN  IF Len(s) > 0 THEN s[1].quantity ELSE 0

Delta(type, quantity) == IF type = "IN" THEN quantity ELSE 0 - quantity

\* C13: two successful sequential stock changes with the same product, the
\* same type IN or OUT and the same quantity >= 0 record two transactions
\* with distinct identifiers and move the stock by twice the quantity.
C13_NotIdempotent ==
    \A p \in Procs :
        ( /\ Succeeded(p) /\ sequential[p] /\ TypedChange(p)
          /\ request[p].type \in {"IN", "OUT"} /\ request[p].quantity >= 0 )
        => \A k1 \in SnapshotsOf(op[p] - 1), t1 \in TransactionsOf(op[p] - 1) :
             ( /\ stock[k1].product_id = request[p].product_id
               /\ stock_transactions[t1].product_id = request[p].product_id
               /\ stock_transactions[t1].type = request[p].type
               /\ stock_transactions[t1].quantity = request[p].quantity )
             => /\ \A t2 \in TransactionsOf(op[p]) :
                      stock_transactions[t2].id # stock_transactions[t1].id
                /\ Cardinality(TransactionsOf(op[p])) = 1
                /\ CurrentQuantity("ok", request[p].product_id) =
                      StockBeforeRow(request[p].product_id, k1)
                      + 2 * Delta(request[p].type, request[p].quantity)

\* position of a returned transaction in the stock_transactions table
RowOf(t) == CHOOSE k \in 1..Len(stock_transactions) : stock_transactions[k] = t

\* C14: the transaction history of product P with limit L has at most L
\* transactions, all of P, most recent first and without a gap in P's
\* history; the limit is 50 when the caller gives none, and a caller's limit
\* below 1 is not sent to the store.
C14_HistoryLimited ==
    \A p \in Procs :
        (pc[p] = "done" /\ handler[p] = "get_transactions" /\ result[p] = "ok") =>
            LET rows == dataset[p]
                mine == {k \in 1..Len(stock_transactions) :
                            stock_transactions[k].product_id = request[p].product_id}
            IN  /\ ~args[p].has_limit => limit[p] = DefaultLimit
                /\ limit[p] >= 1
                /\ Len(rows) <= limit[p]
                /\ \A j \in 1..Len(rows) :
                      /\ rows[j].product_id = request[p].product_id
                      /\ \E k \in mine : stock_transactions[k] = rows[j]
                /\ \A j \in 1..(Len(rows) - 1) :
                      /\ RowOf(rows[j]) > RowOf(rows[j + 1])
                      /\ ~\E k \in mine : /\ k < RowOf(rows[j])
                                          /\ k > RowOf(rows[j + 1])

\* C15: the current-stock query returns the quantity of the latest snapshot,
\* or 0 with a no-record indication when the store answered without a row;
\* when the store query failed it does not answer 'no record' with quantity 0.
NoRecordResponse(p) ==
    /\ response[p].current_stock = 0
    /\ response[p].message \in {"Stock not found", "No stock record found"}

C15_StockQueryResult ==
    \A p \in Procs :
        (pc[p] = "done" /\ handler[p] \in {"get_stock", "GetStock"}) =>
            /\ result[p] = "error" => ~NoRecordResponse(p)
            /\ (result[p] = "ok" /\ Len(dataset[p]) = 0) => NoRecordResponse(p)
            /\ (result[p] = "ok" /\ Len(dataset[p]) > 0) =>
                  /\ response[p].current_stock = dataset[p][1].quantity
                  /\ ~NoRecordResponse(p)

\* C16: whenever REST update_stock or gRPC CreateTransaction reports success,
\* both its snapshot insert and its transaction insert were accepted by the
\* store: the snapshot and the transaction of the operation are in the tables.
C16_SuccessMeansBothInserted ==
    \A p \in Procs :
        (Succeeded(p) /\ handler[p] \in {"update_stock", "CreateTransaction"}) =>
            /\ stock_result[p] = "ok"
            /\ \E k \in SnapshotsOf(op[p]) : stock[k].quantity = new_quantity[p]
            /\ \E k \in TransactionsOf(op[p]) :
                  stock_transactions[k].quantity_after = new_quantity[p]

\* both front ends have reported a success, after a store query had failed
C16_Witness ==
    /\ failures > 0
    /\ \E p, q \in Procs :
        /\ Succeeded(p) /\ handler[p] = "update_stock"
        /\ Succeeded(q) /\ handler[q] = "CreateTransaction"

\* the next step of a stock change that has read the stock
HandlerStep(p) ==
    \/ RestInsertStock(p)
    \/ RestInsertTransaction(p)
    \/ UpdateStockInsert(p)
    \/ CreateTransactionInsertStock(p)
    \/ CreateTransactionInsertTransaction(p)

\* C17: while a stock change on another product is in progress, at any point
\* of its read-compute-write cycle, a stock change in progress can take its
\* next step, and a free worker can start a stock change.
C17_ProductsIndependent ==
    \A p, q \in Procs :
        (p # q /\ Running(q)) =>
            /\ (Running(p) /\ request[p].product_id # request[q].product_id)
                  => ENABLED HandlerStep(p)
            /\ Free(p) =>
                  ENABLED (RestRead(p) /\ request'[p].product_id # request[q].product_id)

\* two stock changes on different products are in progress, one between its
\* two inserts
C17_Witness ==
    \E p, q \in Procs :
        /\ pc[p] = "insert_stock" /\ pc[q] = "insert_txn"
        /\ request[p].product_id # request[q].product_id

\* C18: ledger continuity: of the committed transactions of a product, taken
\* in commit order, the first has quantity_before 0 and every later one has
\* the quantity_after of the one before it as its quantity_before (stated of
\* the states where no handler is in progress and no store query has failed).
C18_LedgerContinuous ==
    ((\A p \in Procs : ~Running(p)) /\ failures = 0) =>
    \A i \in Products :
        LET history == TransactionsDesc(stock_transactions, i, Len(stock_transactions))
            n == Len(history)
        IN  /\ n > 0 => history[n].quantity_before = 0
            /\ \A j \in 1..(n - 1) :
                  history[j].quantity_before = history[j + 1].quantity_after

\* C19: a request that is refused for a validation reason (a negative
\* quantity, a type that is none of IN, OUT, ADJUSTMENT) is refused before
\* any store query is issued on its behalf.
C19_ValidationBeforeStore ==
    \A p \in Procs :
        ( /\ Rejected(p)
          /\ "InvalidArgument" \in ErrorKinds(p)
          /\ \/ request[p].has_quantity /\ request[p].quantity < 0
             \/ request[p].has_type /\ request[p].type \notin StockTypes )
        => queries[p] = 0

IsPrefix(a, b) == Len(a) <= Len(b) /\ SubSeq(b, 1, Len(a)) = a

\* C20: the ledger is append-only: every step of every handler leaves the
\* existing snapshots and transactions as they are and in place; the tables
\* only grow at their end.
C20_AppendOnly ==
    [][/\ IsPrefix(stock, stock')
       /\ IsPrefix(stock_transactions, stock_transactions')]_vars

\* a product has a second snapshot and a second transaction
C20_Witness ==
    \E i \in Products :
        /\ Cardinality({k \in 1..Len(stock) : stock[k].product_id = i}) >= 2
        /\ Cardinality({k \in 1..Len(stock_transactions) :
                           stock_transactions[k].product_id = i}) >= 2

\* C21: no two recorded transactions share a transaction identifier, and the
\* identifier a successful stock change returned names exactly one recorded
\* transaction.
C21_TransactionIdsUnique ==
    /\ \A t1, t2 \in 1..Len(stock_transactions) :
          t1 # t2 => stock_transactions[t1].id # stock_transactions[t2].id
    /\ \A p \in Procs :
          (Succeeded(p) /\ handler[p] \in {"update_stock", "CreateTransaction"}) =>
              Cardinality({t \in 1..Len(stock_transactions) :
                  stock_transactions[t].id = response[p].transaction_id}) = 1

\* C22: an accepted gRPC UpdateStock(P, q) leaves the ledger as the stock
\* change (P, ADJUSTMENT, q) does: a snapshot of P with quantity q and an
\* ADJUSTMENT transaction of P with quantity_before the stock it read and
\* quantity_after q.
C22_UpdateStockIsAdjustment ==
    \A p \in Procs :
        (handler[p] = "UpdateStock" /\ Succeeded(p)) =>
            /\ \E k \in SnapshotsOf(op[p]) :
                  /\ stock[k].product_id = request[p].product_id
                  /\ stock[k].quantity = request[p].quantity
            /\ \E t \in TransactionsOf(op[p]) :
                  /\ stock_transactions[t].product_id = request[p].product_id
                  /\ stock_transactions[t].type = "ADJUSTMENT"
                  /\ stock_transactions[t].quantity_before = current_quantity[p]
                  /\ stock_transactions[t].quantity_after = request[p].quantity

\* C23: an update request that leaves out its type or its quantity is
\* refused with InvalidArgument and writes nothing to the ledger.
C23_MissingFieldRejected ==
    \A p \in Procs :
        ( /\ pc[p] = "done" /\ handler[p] = "update_stock"
          /\ ~request[p].has_type \/ ~request[p].has_quantity )
        => /\ Rejected(p)
           /\ "InvalidArgument" \in ErrorKinds(p)
           /\ WroteNothing(p)

\* Every request thread that is in a handler keeps running (Flask serves each
\* request on its own thread, the gRPC server on a worker of its pool) and
\* the store answers each query, with rows or with an error.
SpecFair == Init /\ [][Next]_vars /\ \A p \in Procs : WF_vars(HandlerStep(p))

\* the handler returned success or an error of the taxonomy
Returned(p) == pc[p] = "done" /\ (Succeeded(p) \/ ErrorKinds(p) # {})

\* C24: every started stock change returns, with success or with an error of
\* the taxonomy, whatever else runs at the same time; no handler sends more
\* than its three store queries, so none loops or retries without bound.
C24_Terminates ==
    /\ [](\A p \in Procs : queries[p] <= 3)
    /\ \A p \in Procs : Running(p) ~> Returned(p)

\* two stock changes on one product overlapped and both returned, a store
\* query having failed
C24_Witness ==
    \E p, q \in Procs :
        /\ p # q /\ Returned(p) /\ Returned(q)
        /\ ~sequential[p] /\ ~sequential[q]
        /\ request[p].product_id = request[q].product_id
        /\ failures > 0

\* The servers started on a store that holds one committed stock change,
\* (P1, IN, MaxQty), written before the requests counted in ops: op 0.
InitStocked ==
    /\ stock = <<[product_id |-> "P1", quantity |-> MaxQty, op |-> 0]>>
    /\ stock_transactions =
          <<[id |-> 1, product_id |-> "P1", type |-> "IN", quantity |-> MaxQty,
             quantity_before |-> 0, quantity_after |-> MaxQty, op |-> 0]>>
    /\ failures = 0
    /\ pc = [p \in Procs |-> "idle"]
    /\ handler = [p \in Procs |-> "none"]
    /\ request = [p \in Procs |-> NoRequest]
    /\ current_quantity = [p \in Procs |-> 0]
    /\ new_quantity = [p \in Procs |-> 0]
    /\ txn_id = [p \in Procs |-> 0]
    /\ stock_result = [p \in Procs |-> "none"]
    /\ response = [p \in Procs |-> NoResponse]
    /\ uuids = 1
    /\ ops = 0
    /\ op = [p \in Procs |-> 0]
    /\ sequential = [p \in Procs |-> FALSE]
    /\ stock_at_call = [p \in Procs |-> 0]
    /\ queries = [p \in Procs |-> 0]
    /\ products = {}
    /\ args = [p \in Procs |-> NoArgs]
    /\ limit = [p \in Procs |-> 0]
    /\ result = [p \in Procs |-> "none"]
    /\ dataset = [p \in Procs |-> <<>>]

SpecStocked == InitStocked /\ [][Next]_vars

\* the sum of the quantities of the first k transactions of a product that
\* have the given type
RECURSIVE Committed(_, _, _)
Committed(type, product_id, k) ==
    IF k = 0 THEN 0
    ELSE Committed(type, product_id, k - 1)
         + ( IF /\ stock_transactions[k].product_id = product_id
                /\ stock_transactions[k].type = type
             THEN stock_transactions[k].quantity ELSE 0 )

\* the product has received IN and OUT changes with quantities >= 0 only:
\* its transactions are such, its snapshots come with a transaction or from
\* a change still in progress, and so are the requests in the handlers
OnlyInOut(product_id) ==
    /\ \A t \in 1..Len(stock_transactions) :
          stock_transactions[t].product_id = product_id =>
              /\ stock_transactions[t].type \in {"IN", "OUT"}
              /\ stock_transactions[t].quantity >= 0
    /\ \A k \in 1..Len(stock) :
          stock[k].product_id = product_id =>
              \/ TransactionsOf(stock[k].op) # {}
              \/ \E p \in Procs : Running(p) /\ op[p] = stock[k].op
    /\ \A p \in Procs :
          (pc[p] # "idle" /\ request[p].product_id = product_id) =>
              /\ TypedChange(p)
              /\ request[p].type \in {"IN", "OUT"}
              /\ request[p].quantity >= 0

\* C25: when every handler has returned and no store query has failed, a
\* product that has received IN and OUT changes with quantities >= 0 only
\* has not given out more than it has taken in: its committed OUT quantities
\* sum to at most its committed IN quantities.
C25_NoOverselling ==
    \A i \in Products :
        (failures = 0 /\ OnlyInOut(i) /\ \A p \in Procs : ~Running(p)) =>
            Committed("OUT", i, Len(stock_transactions))
                <= Committed("IN", i, Len(stock_transactions))

\* the rows of one product, in table order
RowsOf(rows, product_id) == SelectSeq(rows, LAMBDA r : r.product_id = product_id)

\* C26: a step of a stock change on product P, of either front end and
\* whatever its outcome, leaves the snapshots and the transactions of every
\* other product as they were.
C26_OtherProductsUnchanged ==
    [][\A p \in Procs :
          (pc'[p] # pc[p] \/ queries'[p] # queries[p]) =>
              \A i \in Products \ {request'[p].product_id} :
                  /\ RowsOf(stock', i) = RowsOf(stock, i)
                  /\ RowsOf(stock_transactions', i) = RowsOf(stock_transactions, i)]_vars

\* a stock change has written rows of one product, accepted or not in the
\* end, while the other product had rows of its own
C26_Witness ==
    \E p \in Procs :
        /\ pc[p] = "done" /\ SnapshotsOf(op[p]) # {}
        /\ \E i \in Products \ {request[p].product_id} :
              /\ Len(RowsOf(stock, i)) > 0
              /\ Len(RowsOf(stock_transactions, i)) > 0

\* SELECT t.* FROM stock_transactions t ... ORDER BY t.timestamp DESC
Reversed(rows) == [k \in 1..Len(rows) |-> rows[Len(rows) + 1 - k]]

\* REST get_all_transactions, lines 226-244: the history of all products
GetAllTransactions(p) ==
    /\ Free(p)
    /\ \E a \in LimitArgs, outcome \in QueryOutcomes :
        LET lim == IF a.has_limit THEN a.limit ELSE DefaultLimitAll
            all == Reversed(stock_transactions)
        IN  /\ execute_query(p, 0, outcome)
            /\ ReadDispatch(p, "get_all_transactions", NoRequest)
            /\ args' = [args EXCEPT ![p] = a]
            /\ limit' = [limit EXCEPT ![p] = lim]
            /\ result' = [result EXCEPT ![p] = outcome]
            /\ \E n \in LimitedLengths(lim, Len(all)) :
                  dataset' = [dataset EXCEPT ![p] =
                                IF outcome = "ok" THEN SubSeq(all, 1, n) ELSE <<>>]
            /\ response' = [response EXCEPT ![p] =
                  StockResponse(IF outcome = "ok" THEN 200 ELSE 500, "", 0,
                                IF outcome = "ok" THEN "success" ELSE "error")]

\* gRPC GetProduct, lines 75-94: SELECT * FROM products WHERE id = ..
GetProduct(p) ==
    /\ Free(p)
    /\ \E r \in ReadRequests, outcome \in QueryOutcomes :
        LET found == outcome = "ok" /\ r.product_id \in products
        IN  /\ execute_query(p, 0, outcome)
            /\ ReadDispatch(p, "GetProduct", r)
            /\ result' = [result EXCEPT ![p] = outcome]
            /\ dataset' = [dataset EXCEPT ![p] = <<>>]
            /\ response' = [response EXCEPT ![p] =
                  IF found THEN StockResponse(0, "OK", 0, "Product found")
                  ELSE StockResponse(0, "NOT_FOUND", 0, "Product not found")]
            /\ UNCHANGED <<args, limit>>

\* every handler that reads, next to the stock changes and the registry
NextAllReads ==
    \/ NextReads
    \/ \E i \in Products : CreateProduct(i)
    \/ \E p \in Procs :
        \/ GetAllTransactions(p)
        \/ GetProduct(p)

SpecAllReads == Init /\ [][NextAllReads]_vars

ReadHandlers ==
    {"get_stock", "GetStock", "get_transactions", "get_all_transactions", "GetProduct"}

\* C27: a reading handler (the current-stock query of either front end, the
\* history of a product, the history of all products, the product lookup)
\* leaves the snapshots and the transactions as they were, whatever stock
\* change is in progress.
C27_ReadsChangeNothing ==
    [][\A p \in Procs :
          (op'[p] # op[p] /\ handler'[p] \in ReadHandlers) =>
              /\ stock' = stock
              /\ stock_transactions' = stock_transactions]_vars

\* a read has returned while a stock change that had inserted its snapshot
\* was waiting to insert its transaction
C27_Witness ==
    \E p, q \in Procs :
        /\ pc[p] = "done" /\ handler[p] \in ReadHandlers
        /\ pc[q] = "insert_txn" /\ op[q] < op[p]
        /\ SnapshotsOf(op[q]) # {}
====
